---- MODULE Spec2Model ----
(***************************************************************************)
(* Model of src/signal_bot.py: the hybrid signal parser ai_parse_signal    *)
(* (external semantic parser first, regex fallback second) and the         *)
(* message handler that writes parsed signals to the SQLite ledger and     *)
(* forwards a notification, running on a single cooperative event loop.    *)
(*                                                                         *)
(* A text is a sequence of one-character strings.  A float is a fixed      *)
(* point integer counting thousandths (2499.25 is 2499250).  Every number  *)
(* of the vocabulary is a multiple of 0.25, hence exactly representable in *)
(* binary floating point, so that sums, means and round(x, 1) of the       *)
(* program are the exact decimal results computed here.                    *)
(***************************************************************************)
EXTENDS Integers, Sequences, FiniteSets, TLC

(***************************************************************************)
(* Bounds.                                                                 *)
(***************************************************************************)
\* longest generated text, in words
MaxWords == 3
\* number of inbound messages a behaviour delivers
MaxMsgs == 2

(***************************************************************************)
(* Characters.                                                             *)
(***************************************************************************)
Lower == <<"a","b","c","d","e","f","g","h","i","j","k","l","m",
           "n","o","p","q","r","s","t","u","v","w","x","y","z">>
UpperL == <<"A","B","C","D","E","F","G","H","I","J","K","L","M",
            "N","O","P","Q","R","S","T","U","V","W","X","Y","Z">>
DigitChars == <<"0","1","2","3","4","5","6","7","8","9">>

\* \d of the re module, on the ASCII digits
IsDigit(c) == \E i \in 1..10 : DigitChars[i] = c
DigitVal(c) == (CHOOSE i \in 1..10 : DigitChars[i] = c) - 1
\* \s of the re module, on the ASCII white space
IsSpace(c) == c \in {" ", "\t", "\n", "\r", "\f"}

\* str.upper() on one character
UpperChar(c) ==
  IF \E i \in 1..26 : Lower[i] = c
  THEN UpperL[CHOOSE i \in 1..26 : Lower[i] = c]
  ELSE c
\* text.upper()
upper(t) == [i \in 1..Len(t) |-> UpperChar(t[i])]

\* pat in t  (substring test)
Contains(t, pat) ==
  \E i \in 1..(Len(t) - Len(pat) + 1) : SubSeq(t, i, i + Len(pat) - 1) = pat

(***************************************************************************)
(* float() of a matched number string and round(x, 1).                     *)
(***************************************************************************)
RECURSIVE DigitsVal(_)
DigitsVal(s) ==
  IF Len(s) = 0 THEN 0
  ELSE 10 * DigitsVal(SubSeq(s, 1, Len(s) - 1)) + DigitVal(s[Len(s)])

\* float("ddd"), float("ddd."), float("ddd.dd") in thousandths
FloatOf(s) ==
  IF \E i \in 1..Len(s) : s[i] = "."
  THEN LET d == CHOOSE i \in 1..Len(s) : s[i] = "."
           f == SubSeq(SubSeq(s, d + 1, Len(s)) \o <<"0","0","0">>, 1, 3)
       IN  1000 * DigitsVal(SubSeq(s, 1, d - 1)) + DigitsVal(f)
  ELSE 1000 * DigitsVal(s)

\* round(x, 1): to the nearest tenth, ties to the even tenth
Round1(x) ==
  LET q == x \div 100
      r == x % 100
  IN  IF r < 50 THEN 100 * q
      ELSE IF r > 50 THEN 100 * (q + 1)
      ELSE IF q % 2 = 0 THEN 100 * q ELSE 100 * (q + 1)

(***************************************************************************)
(* Python values: a dict entry is absent, None, a number or a string.      *)
(***************************************************************************)
Absent == [k |-> "absent", n |-> 0, s |-> ""]
None == [k |-> "none", n |-> 0, s |-> ""]
Num(x) == [k |-> "num", n |-> x, s |-> ""]
Str(x) == [k |-> "str", n |-> 0, s |-> x]

\* the value None returned in place of a dict
PyNone ==
  [tag |-> "none", direction |-> Absent, entry |-> Absent, sl |-> Absent,
   tp1 |-> Absent, tp2 |-> Absent, tp3 |-> Absent, tp4 |-> Absent]
Dict(d, e, s, t1, t2, t3, t4) ==
  [tag |-> "dict", direction |-> d, entry |-> e, sl |-> s,
   tp1 |-> t1, tp2 |-> t2, tp3 |-> t3, tp4 |-> t4]

\* truth value of a Python value
Truthy(v) ==
  \/ v.k = "num" /\ v.n # 0
  \/ v.k = "str" /\ v.s # ""

Keys == {"direction", "entry", "sl", "tp1", "tp2", "tp3", "tp4"}
\* truth value of what ai_parse_signal returns: None and {} are false
TruthySignal(sig) ==
  sig.tag = "dict" /\ \E key \in Keys : sig[key].k # "absent"
\* dict.get(key): None when the key is absent
Get(sig, key) == IF sig[key].k = "absent" THEN None ELSE sig[key]

(***************************************************************************)
(* The regular expressions of the fallback parser.                         *)
(***************************************************************************)
\* length of the run of digits that starts at position i
RECURSIVE DigitsRun(_, _)
DigitsRun(t, i) ==
  IF i <= Len(t) /\ IsDigit(t[i]) THEN 1 + DigitsRun(t, i + 1) ELSE 0

\* length of the run of white space that starts at position i
RECURSIVE SpaceRun(_, _)
SpaceRun(t, i) ==
  IF i <= Len(t) /\ IsSpace(t[i]) THEN 1 + SpaceRun(t, i + 1) ELSE 0

IsChar(t, i, c) == i <= Len(t) /\ t[i] = c

\* the greedy match of \d+\.?\d* at the digit at position i: the position
\* after its last character
NumberEnd(t, i) ==
  LET p == i + DigitsRun(t, i)
  IN  IF IsChar(t, p, ".") THEN p + 1 + DigitsRun(t, p + 1) ELSE p

\* re.findall(r'\d+\.?\d*', text) from position i on, each match through float()
RECURSIVE FindNumbers(_, _)
FindNumbers(t, i) ==
  IF i > Len(t) THEN <<>>
  ELSE IF IsDigit(t[i])
       THEN <<FloatOf(SubSeq(t, i, NumberEnd(t, i) - 1))>>
              \o FindNumbers(t, NumberEnd(t, i))
       ELSE FindNumbers(t, i + 1)

\* the ways the first group (\d+\.?\d*) matches from the digit at position i:
\* how many characters \d+, \.? and \d* take
ZoneHeads(t, i) ==
  {h \in [n1 : 1..DigitsRun(t, i), dot : 0..1, n2 : 0..(Len(t) - i)] :
     /\ h.dot = 1 => IsChar(t, i + h.n1, ".")
     /\ h.n2 <= DigitsRun(t, i + h.n1 + h.dot)}
HeadEnd(i, h) == i + h.n1 + h.dot + h.n2

\* the ways \s*[-]?\s* matches from position p with a digit, the start of the
\* second group, right after it
ZoneTails(t, p) ==
  {x \in [s1 : 0..SpaceRun(t, p), dash : 0..1, s2 : 0..(Len(t) - p)] :
     LET p3 == p + x.s1
         p4 == p3 + x.dash
         p5 == p4 + x.s2
     IN  /\ x.dash = 1 => IsChar(t, p3, "-")
         /\ x.s2 <= SpaceRun(t, p4)
         /\ p5 <= Len(t) /\ IsDigit(t[p5])}
TailEnd(p, x) == p + x.s1 + x.dash + x.s2

\* the ways (\d+\.?\d*)\s*[-]?\s*(\d+\.?\d*) matches from position i
ZoneWays(t, i) ==
  UNION {{[h |-> h, x |-> x] : x \in ZoneTails(t, HeadEnd(i, h))} :
           h \in ZoneHeads(t, i)}

\* backtracking order: every quantifier is greedy, the leftmost one decides
ZoneKey(t, w) ==
  LET B == Len(t) + 1
  IN  ((((w.h.n1 * 2 + w.h.dot) * B + w.h.n2) * B + w.x.s1) * 2 + w.x.dash) * B
        + w.x.s2

\* re.search of the zone pattern: [found, a, b] with a, b the float() of groups
\* 1 and 2 of the leftmost match
zone_match(t) ==
  IF \E i \in 1..Len(t) : ZoneWays(t, i) # {}
  THEN LET i == CHOOSE j \in 1..Len(t) :
                  /\ ZoneWays(t, j) # {}
                  /\ \A h \in 1..(j - 1) : ZoneWays(t, h) = {}
           w == CHOOSE v \in ZoneWays(t, i) :
                  \A u \in ZoneWays(t, i) : ZoneKey(t, u) <= ZoneKey(t, v)
           p2 == HeadEnd(i, w.h)
           p5 == TailEnd(p2, w.x)
       IN  [found |-> TRUE,
            a |-> FloatOf(SubSeq(t, i, p2 - 1)),
            b |-> FloatOf(SubSeq(t, p5, NumberEnd(t, p5) - 1))]
  ELSE [found |-> FALSE, a |-> 0, b |-> 0]

\* re.split(r'\s+', text) from position i on, cur being the word read so far
RECURSIVE SplitFrom(_, _, _)
SplitFrom(t, i, cur) ==
  IF i > Len(t) THEN <<cur>>
  ELSE IF IsSpace(t[i])
       THEN <<cur>> \o SplitFrom(t, i + SpaceRun(t, i), <<>>)
       ELSE SplitFrom(t, i + 1, Append(cur, t[i]))
Split(t) == SplitFrom(t, 1, <<>>)

(***************************************************************************)
(* The fallback regex parser of ai_parse_signal.                           *)
(***************************************************************************)
W_BUY == <<"B","U","Y">>
W_LONG == <<"L","O","N","G">>
W_SELL == <<"S","E","L","L">>
W_SHORT == <<"S","H","O","R","T">>
W_SL == <<"S","L">>
W_STOP == <<"S","T","O","P">>
W_STOPLOSS == <<"S","T","O","P","L","O","S","S">>

\* faulty variant: SELL is the default instead of None
direction_of_default_sell(text_up) ==
  IF Contains(text_up, W_BUY) \/ Contains(text_up, W_LONG) THEN "BUY"
  ELSE "SELL"

\* direction of the fallback parser: "BUY", "SELL" or "" for None
direction_of(text_up) ==
  IF Contains(text_up, W_BUY) \/ Contains(text_up, W_LONG) THEN "BUY"
  ELSE IF Contains(text_up, W_SELL) \/ Contains(text_up, W_SHORT) THEN "SELL"
  ELSE ""

numbers_of(text) == FindNumbers(text, 1)

\* entry: the first number, replaced by the mean of the zone match
entry_of(text, numbers) ==
  LET z == zone_match(text)
  IN  IF z.found THEN (z.a + z.b) \div 2 ELSE numbers[1]

SLLabels == {W_SL, W_STOP, W_STOPLOSS}
\* index (from 0) of the first word that is a stop-loss label, -1 for None
sl_index_of(text_up) ==
  LET words == Split(text_up)
  IN  IF \E i \in 1..Len(words) : words[i] \in SLLabels
      THEN (CHOOSE i \in 1..Len(words) :
              /\ words[i] \in SLLabels
              /\ \A j \in 1..(i - 1) : words[j] \notin SLLabels) - 1
      ELSE -1

\* numbers[i] with i counted from 0
At0(numbers, i) == numbers[i + 1]

sl_of(text_up, numbers) ==
  LET sl_index == sl_index_of(text_up)
  IN  IF sl_index # -1 /\ sl_index + 1 < Len(numbers)
      THEN At0(numbers, sl_index + 1)
      ELSE At0(numbers, 1)

\* numbers[tp_start + k] if there is one, else None; then
\* round(tp, 1) if tp else None
tp_of(numbers, k) ==
  LET tp_start == 2
  IN  IF Len(numbers) > tp_start + k /\ At0(numbers, tp_start + k) # 0
      THEN Num(Round1(At0(numbers, tp_start + k)))
      ELSE None

\* the value the fallback returns
regex_fallback(text) ==
  LET text_up == upper(text)
      direction == direction_of(text_up)
      numbers == numbers_of(text)
  IN  IF direction = "" THEN PyNone
      ELSE IF Len(numbers) < 2 THEN PyNone
      ELSE Dict(Str(direction),
                Num(Round1(entry_of(text, numbers))),
                Num(Round1(sl_of(text_up, numbers))),
                tp_of(numbers, 0), tp_of(numbers, 1),
                tp_of(numbers, 2), tp_of(numbers, 3))

(***************************************************************************)
(* The semantic parser call and ai_parse_signal.                           *)
(***************************************************************************)
\* what the external process does: it cannot be started, it exceeds the
\* timeout, its output holds no {...}, holds a {...} that is not JSON, or
\* holds a JSON object
FailureModes == {"start_failure", "timeout", "no_json", "bad_json"}
Outcome(mode, data) == [mode |-> mode, data |-> data]

\* subprocess.run(..., timeout=60): the exception it raises, "" for none
subprocess_run(out) ==
  IF out.mode = "start_failure" THEN "FileNotFoundError"
  ELSE IF out.mode = "timeout" THEN "TimeoutExpired"
  ELSE ""

\* re.search(r'\{.*\}', output, re.DOTALL) finds a match
json_match(out) == out.mode \in {"bad_json", "object"}

\* json.loads(json_match.group()): the exception it raises, "" for none
json_loads(out) == IF out.mode = "bad_json" THEN "JSONDecodeError" ELSE ""

\* the classes an except clause catches
ExceptionClasses ==
  {"FileNotFoundError", "TimeoutExpired", "JSONDecodeError", "KeyError",
   "IntegrityError"}
Catches(clause, exc) ==
  \/ clause = "Exception" /\ exc \in ExceptionClasses
  \/ clause = exc

Return(v) == [raised |-> "", value |-> v]
Raise(e) == [raised |-> e, value |-> PyNone]

\* the try block of ai_parse_signal: it returns the parsed object, raises
\* past its inner except clause, or falls through to the fallback
ai_try(out) ==
  IF subprocess_run(out) # ""
  THEN [kind |-> "raise", exc |-> subprocess_run(out), data |-> PyNone]
  ELSE IF json_match(out)
       THEN IF json_loads(out) = ""
            THEN [kind |-> "return", exc |-> "", data |-> out.data]
            ELSE IF Catches("JSONDecodeError", json_loads(out))
                 THEN [kind |-> "fall", exc |-> "", data |-> PyNone]
                 ELSE [kind |-> "raise", exc |-> json_loads(out),
                       data |-> PyNone]
       ELSE [kind |-> "fall", exc |-> "", data |-> PyNone]

\* faulty variant: no except clause around the call of the external process
ai_parse_signal_no_except(text, out) ==
  LET r == ai_try(out)
  IN  IF r.kind = "return" THEN Return(r.data)
      ELSE IF r.kind = "raise" THEN Raise(r.exc)
      ELSE Return(regex_fallback(text))

\* ai_parse_signal(text), given what the external process does
ai_parse_signal(text, out) ==
  LET r == ai_try(out)
  IN  IF r.kind = "return" THEN Return(r.data)
      ELSE IF r.kind = "raise" /\ ~Catches("Exception", r.exc)
           THEN Raise(r.exc)
           ELSE Return(regex_fallback(text))

(***************************************************************************)
(* Inputs: message texts and outcomes of the external process.             *)
(***************************************************************************)
SP == <<" ">>
Words ==
  {W_BUY, <<"s","e","l","l">>, W_SL, <<"T","P","1">>,
   <<"2","5">>, <<"7">>, <<"2",".","5">>, <<"2","5","-","7">>}

\* the words of ws separated by single spaces
RECURSIVE Join(_)
Join(ws) ==
  IF Len(ws) = 0 THEN <<>>
  ELSE IF Len(ws) = 1 THEN ws[1]
  ELSE ws[1] \o SP \o Join(Tail(ws))

\* "BUY 2500-2498 SL 2490 TP1 2510"
TextZone ==
  Join(<<W_BUY, <<"2","5","0","0","-","2","4","9","8">>, W_SL,
         <<"2","4","9","0">>, <<"T","P","1">>, <<"2","5","1","0">> >>)
\* "SELL gold SL 1950 2000 TP1 1980"
TextLabel ==
  Join(<<W_SELL, <<"g","o","l","d">>, W_SL, <<"1","9","5","0">>,
         <<"2","0","0","0">>, <<"T","P","1">>, <<"1","9","8","0">> >>)
\* "BUY 2500 SL 2490 TP 2510"
TextPlain ==
  Join(<<W_BUY, <<"2","5","0","0">>, W_SL, <<"2","4","9","0">>,
         <<"T","P">>, <<"2","5","1","0">> >>)
\* "hello 2500 2490": two numbers, no direction keyword
TextNoDir ==
  Join(<<<<"h","e","l","l","o">>, <<"2","5","0","0">>, <<"2","4","9","0">> >>)
ExampleTexts == {TextZone, TextLabel, TextPlain, TextNoDir}

GeneratedTexts ==
  {Join(ws) : ws \in UNION {[1..k -> Words] : k \in 0..MaxWords}}
Texts == ExampleTexts \cup GeneratedTexts

\* the JSON objects the external process answers with
AIObjects ==
  {Dict(d, e, s, t1, Absent, Absent, Absent) :
     d \in {Absent, None, Str("BUY"), Str("hold")},
     e \in {Absent, None, Num(2499250)},
     s \in {Absent, None, Num(2490000)},
     t1 \in {Absent, Num(2510000)}}
AIOutcomes ==
  {Outcome(m, PyNone) : m \in FailureModes}
    \cup {Outcome("object", d) : d \in AIObjects}

(***************************************************************************)
(* State.                                                                  *)
(***************************************************************************)
VARIABLES
  pText,    \* the text ai_parse_signal is called with
  pOut,     \* what the external process does during that call
  pPhase,   \* "input" before the call, "returned" after it
  pRes,     \* what the call returned or raised
  task,     \* the handler task of each inbound message
  blocked,  \* the task whose subprocess.run holds the loop thread, 0 if none
  ledger,   \* the rows of table signals, in id order
  sent      \* number of client.send_message calls

pvars == <<pText, pOut, pPhase, pRes>>
hvars == <<task, blocked, ledger, sent>>
vars == <<pText, pOut, pPhase, pRes, task, blocked, ledger, sent>>

(***************************************************************************)
(* The handler of a new message.                                           *)
(***************************************************************************)
Msgs == 1..MaxMsgs
\* "", "BUY 25-7" and "25 7"
HandlerTexts ==
  {<<>>, Join(<<W_BUY, <<"2","5","-","7">> >>), Join(<<<<"2","5">>, <<"7">> >>)}
Titles == {"", "Gold VIP"}

NoOutcome == Outcome("none", PyNone)
\* got: whether the call of ai_parse_signal gave the handler a signal
Idle == [pc |-> "idle", text |-> <<>>, title |-> "", got |-> ""]

\* the exception the INSERT raises, "" for none: signal['direction'],
\* signal['entry'] and signal['sl'] need the key, the columns are NOT NULL
insert_error(sig) ==
  IF \E key \in {"direction", "entry", "sl"} : sig[key].k = "absent"
  THEN "KeyError"
  ELSE IF \E key \in {"direction", "entry", "sl"} : sig[key].k = "none"
       THEN "IntegrityError"
       ELSE ""

\* the row the INSERT adds: id is the AUTOINCREMENT key, the statuses and the
\* profit are the literals of the statement (the time column is left out)
Row(id, channel_name, sig) ==
  [id |-> id, channel |-> channel_name, direction |-> sig.direction,
   entry |-> sig.entry, sl |-> sig.sl,
   tp1 |-> Get(sig, "tp1"), tp2 |-> Get(sig, "tp2"),
   tp3 |-> Get(sig, "tp3"), tp4 |-> Get(sig, "tp4"),
   hit |-> "OPEN", profit |-> 0]

\* building the message raises: a take-profit line subtracts the entry from
\* the level, the headline calls direction.upper()
format_error(sig) ==
  \/ \E key \in {"tp1", "tp2", "tp3"} :
       /\ Truthy(Get(sig, key))
       /\ (Get(sig, key).k # "num" \/ sig.entry.k # "num")
  \/ sig.direction.k # "str"

\* what the finished call of ai_parse_signal gave the handler
GotOf(r) == IF TruthySignal(r.value) THEN "signal" ELSE "none"

\* the outcome of a handler that ends in its else branch or its except clause
Quiet(r, rows, nsent) ==
  [ledger |-> rows, sent |-> nsent, sending |-> FALSE, got |-> GotOf(r)]

ChannelName(title) == IF title = "" THEN "Unknown" ELSE title

\* faulty variant: the notification is sent outside the test of the signal
handler_body_notify_always(r, title, rows, nsent) ==
  IF r.raised # "" THEN Quiet(r, rows, nsent)
  ELSE IF ~TruthySignal(r.value)
       THEN [ledger |-> rows, sent |-> nsent + 1, sending |-> TRUE,
             got |-> GotOf(r)]
  ELSE IF insert_error(r.value) # "" THEN Quiet(r, rows, nsent)
  ELSE [ledger |-> Append(rows, Row(Len(rows) + 1, ChannelName(title), r.value)),
        sent |-> nsent + 1, sending |-> TRUE, got |-> GotOf(r)]

\* the body of handler once ai_parse_signal has returned or raised r: the
\* ledger and the number of sent messages it leaves, and whether it ends
\* suspended in client.send_message; every exception ends it in its except
\* clause
handler_body(r, title, rows, nsent) ==
  IF r.raised # "" THEN Quiet(r, rows, nsent)
  ELSE IF ~TruthySignal(r.value) THEN Quiet(r, rows, nsent)
  ELSE IF insert_error(r.value) # "" THEN Quiet(r, rows, nsent)
  ELSE [ledger |-> Append(rows, Row(Len(rows) + 1, ChannelName(title), r.value)),
        sent |-> IF format_error(r.value) THEN nsent ELSE nsent + 1,
        sending |-> ~format_error(r.value),
        got |-> GotOf(r)]

\* the handler of task t runs from the call of ai_parse_signal to its end or
\* to await client.send_message
Finish(t, out) ==
  \E e \in {handler_body(ai_parse_signal(task[t].text, out), task[t].title,
                         ledger, sent)} :
    /\ ledger' = e.ledger
    /\ sent' = e.sent
    /\ task' = [task EXCEPT ![t] =
                  [Idle EXCEPT !.pc = IF e.sending THEN "sending" ELSE "done",
                               !.got = e.got]]

\* a message arrives: its handler runs up to await event.get_chat()
Deliver(m, text, title) ==
  /\ blocked = 0
  /\ task[m].pc = "idle"
  /\ \A h \in 1..(m - 1) : task[h].pc # "idle"
  /\ task' = [task EXCEPT ![m] = [Idle EXCEPT !.pc = "get_chat",
                                              !.text = text, !.title = title]]
  /\ UNCHANGED <<blocked, ledger, sent, pvars>>

\* the handler resumes and calls subprocess.run, which starts the external
\* process and waits for it on the loop thread
CallAI(t) ==
  /\ blocked = 0
  /\ task[t].pc = "get_chat"
  /\ task' = [task EXCEPT ![t].pc = "ai_call"]
  /\ blocked' = t
  /\ UNCHANGED <<ledger, sent, pvars>>

\* the handler resumes and subprocess.run fails to start the process: the
\* handler goes on at once
StartFails(t) ==
  /\ blocked = 0
  /\ task[t].pc = "get_chat"
  /\ Finish(t, Outcome("start_failure", PyNone))
  /\ UNCHANGED <<blocked, pvars>>

\* subprocess.run returns or times out: the handler runs to its end or to
\* await client.send_message
AIReturn(t, out) ==
  /\ blocked = t
  /\ task[t].pc = "ai_call"
  /\ out.mode # "start_failure"
  /\ Finish(t, out)
  /\ blocked' = 0
  /\ UNCHANGED pvars

\* client.send_message completes and the handler ends
SendDone(t) ==
  /\ blocked = 0
  /\ task[t].pc = "sending"
  /\ task' = [task EXCEPT ![t].pc = "done"]
  /\ UNCHANGED <<blocked, ledger, sent, pvars>>

Init ==
  /\ task = [m \in Msgs |-> Idle]
  /\ blocked = 0
  /\ ledger = <<>>
  /\ sent = 0
  /\ pText = <<>>
  /\ pOut = NoOutcome
  /\ pPhase = "input"
  /\ pRes = Return(PyNone)

Next ==
  \/ \E m \in Msgs, text \in HandlerTexts, title \in Titles :
       Deliver(m, text, title)
  \/ \E t \in Msgs : CallAI(t)
  \/ \E t \in Msgs : StartFails(t)
  \/ \E t \in Msgs, out \in AIOutcomes : AIReturn(t, out)
  \/ \E t \in Msgs : SendDone(t)

Spec == Init /\ [][Next]_vars

(***************************************************************************)
(* ai_parse_signal alone, on every text and every outcome of the bounds.   *)
(***************************************************************************)
Parse ==
  /\ pPhase = "input"
  /\ pRes' = ai_parse_signal(pText, pOut)
  /\ pPhase' = "returned"
  /\ UNCHANGED <<pText, pOut, hvars>>

InitParse ==
  /\ pText \in Texts
  /\ pOut \in AIOutcomes
  /\ pPhase = "input"
  /\ pRes = Return(PyNone)
  /\ task = [m \in Msgs |-> Idle]
  /\ blocked = 0
  /\ ledger = <<>>
  /\ sent = 0

NextParse == Parse

SpecParse == InitParse /\ [][NextParse]_vars

(***************************************************************************)
(* Vocabulary of the properties, stated on the text itself.                *)
(***************************************************************************)
Returned == pPhase = "returned"
ParserFailed == pOut.mode \in FailureModes
Mandatory == {"direction", "entry", "sl"}
NumericKeys == {"entry", "sl", "tp1", "tp2", "tp3", "tp4"}

\* the text holds one of the direction keywords, in any case
HasDirectionKeyword(t) ==
  \E kw \in {W_BUY, W_LONG, W_SELL, W_SHORT} : Contains(upper(t), kw)

\* the spans [from, to] of the numbers of the text, left to right
RECURSIVE NumberSpans(_, _)
NumberSpans(t, i) ==
  IF i > Len(t) THEN <<>>
  ELSE IF IsDigit(t[i])
       THEN <<[from |-> i, to |-> NumberEnd(t, i) - 1]>>
              \o NumberSpans(t, NumberEnd(t, i))
       ELSE NumberSpans(t, i + 1)

\* no two numbers are written next to each other or joined by a hyphen: every
\* number is separated from the next by a word
NoZone(t) ==
  LET sp == NumberSpans(t, 1)
  IN  \A n \in 1..(Len(sp) - 1) :
        \E i \in (sp[n].to + 1)..(sp[n + 1].from - 1) :
          ~IsSpace(t[i]) /\ t[i] # "-"

\* the positions where a stop-loss label stands as a white space delimited word
LabelStarts(t) ==
  {i \in 1..Len(t) :
     /\ i = 1 \/ IsSpace(t[i - 1])
     /\ \E lab \in SLLabels :
          /\ i + Len(lab) - 1 <= Len(t)
          /\ SubSeq(upper(t), i, i + Len(lab) - 1) = lab
          /\ i + Len(lab) > Len(t) \/ IsSpace(t[i + Len(lab)])}

\* the numbers of the text that stand after its first stop-loss label
NumbersAfterLabel(t) ==
  LET i == CHOOSE j \in LabelStarts(t) : \A h \in LabelStarts(t) : j <= h
  IN  FindNumbers(t, i)

(***************************************************************************)
(* Properties.                                                             *)
(***************************************************************************)
\* C1: when the semantic parser yields an object in which direction, entry or
\* sl is missing (absent or null), ai_parse_signal discards it and returns the
\* fallback's result for the same text.
C1_IncompleteObjectDiscarded ==
  (Returned /\ pOut.mode = "object"
     /\ \E key \in Mandatory : pOut.data[key].k \in {"absent", "none"})
    => pRes = Return(regex_fallback(pText))

\* C2, as stated: for a text without direction keyword ai_parse_signal returns
\* None, whatever the semantic parser does.
C2_NoKeywordNone ==
  (Returned /\ ~HasDirectionKeyword(pText)) => pRes = Return(PyNone)

\* C2, amended: for a text without direction keyword ai_parse_signal returns
\* None whenever the semantic parser call fails (start failure, timeout, no
\* JSON in the output, unparsable JSON).
C2_NoKeywordNoneOnFailure ==
  (Returned /\ ~HasDirectionKeyword(pText) /\ ParserFailed)
    => pRes = Return(PyNone)

\* a text with two numbers and no direction keyword went through a failed
\* semantic parser call
C2_Witness ==
  /\ Returned /\ ParserFailed
  /\ ~HasDirectionKeyword(pText)
  /\ Len(NumberSpans(pText, 1)) >= 2

\* C3: every numeric field of a returned signal is rounded to one decimal
\* place, on the semantic parser path and on the fallback path.
C3_RoundedToOneDecimal ==
  Returned =>
    \A key \in NumericKeys :
      pRes.value[key].k = "num" => pRes.value[key].n % 100 = 0

\* C4: "BUY 2500-2498 SL 2490 TP1 2510" gives the fallback direction BUY,
\* entry 2499.0, sl 2490.0, tp1 2510.0 and no tp2, tp3, tp4.
C4_ZoneExample ==
  (Returned /\ ParserFailed /\ pText = TextZone)
    => pRes.value = Dict(Str("BUY"), Num(2499000), Num(2490000),
                         Num(2510000), None, None, None)

\* C5: when the fallback accepts a text in which a stop-loss label stands as a
\* word and a number follows it, the returned sl is the number right after
\* the label.
C5_LabelAdjacentSL ==
  (/\ Returned /\ ParserFailed
   /\ pRes.value.tag = "dict"
   /\ LabelStarts(pText) # {}
   /\ NumbersAfterLabel(pText) # <<>>)
    => pRes.value.sl = Num(Round1(NumbersAfterLabel(pText)[1]))

C7_NoSignalSilent ==
  [][\A t \in Msgs :
       (/\ task[t].pc \in {"get_chat", "ai_call"}
        /\ task'[t].pc \in {"sending", "done"}
        /\ task'[t].got = "none")
         => (ledger' = ledger /\ sent' = sent)]_vars

\* a message without signal was handled after one that was recorded and sent
C7_Witness ==
  /\ Len(ledger) > 0 /\ sent > 0
  /\ \E t \in Msgs : task[t].pc = "done" /\ task[t].got = "none"

\* C8: every ledger row has direction BUY or SELL and a numeric entry and sl.
C8_LedgerRowsValid ==
  \A i \in 1..Len(ledger) :
    /\ ledger[i].direction \in {Str("BUY"), Str("SELL")}
    /\ ledger[i].entry.k = "num"
    /\ ledger[i].sl.k = "num"

\* C9: when the fallback accepts a text without zone, the returned entry is
\* the first number of the text rounded to one decimal place.
C9_EntryIsFirstNumber ==
  (/\ Returned /\ ParserFailed
   /\ pRes.value.tag = "dict"
   /\ NoZone(pText))
    => pRes.value.entry = Num(Round1(numbers_of(pText)[1]))

\* C10: while the external call of one handler is pending, every other handler
\* that is ready to go on can take its next step.
C10_LoopNotBlocked ==
  \A t \in Msgs, u \in Msgs :
    (task[t].pc = "ai_call" /\ task[u].pc \in {"get_chat", "sending"})
      => ENABLED (CallAI(u) \/ StartFails(u) \/ SendDone(u))

====
